---- MODULE Spec2Model ----
(***************************************************************************)
(* Model of send_line_notification.py: a stop hook that reads one JSON     *)
(* event from standard input, formats a status message and pushes it with  *)
(* one HTTP POST, mapping the outcome to the process exit code.            *)
(*                                                                         *)
(* Texts.  The texts of the script are not ASCII; each is represented by   *)
(* an ASCII stand-in, named where it is defined.  Distinct texts have      *)
(* distinct stand-ins.                                                     *)
(*                                                                         *)
(* Scope.  Writing to the diagnostic stream never fails, and no signal is  *)
(* delivered to the process (no KeyboardInterrupt).                        *)
(***************************************************************************)
EXTENDS Integers, Sequences, FiniteSets, TLC

VARIABLES
    pc,            \* position of the interpreter in the script
    stdin,         \* the bytes on standard input (abstracted, see StdinInputs)
    osEnviron,     \* the environment the process was started with
    dotenv,        \* the content of the local .env file
    environ,       \* os.environ as the script sees it
    data,          \* main: data (the value json.loads returned)
    status,        \* main: status
    access_token,  \* main: access_token
    user_id,       \* main: user_id
    message,       \* main: message
    posts,         \* number of calls of requests.post made so far
    outcome,       \* how the call of requests.post ended
    success,       \* main: success
    raised,        \* the exception in flight / that ended the try block
    exitCode,      \* exit code of the process (NoExit while running)
    stderr,        \* what was written to sys.stderr, one entry per print
    trace          \* history: the positions the run has been at, in order

vars == <<pc, stdin, osEnviron, dotenv, environ, data, status, access_token,
          user_id, message, posts, outcome, success, raised, exitCode, stderr,
          trace>>

\* Largest loop_count value enumerated for the event record.
MaxLoopCount == 1

----------------------------------------------------------------------------
(* Python values *)

\* A JSON / Python value: t is the type, s the text of a str, n the number of
\* an int (or 1/0 of a bool).  "absent" marks a key the dict does not hold.
Val(t, s, n) == [t |-> t, s |-> s, n |-> n]
JStr(s)  == Val("str", s, 0)
JInt(n)  == Val("int", "", n)
JNull    == Val("null", "", 0)
JBool(b) == Val("bool", "", IF b THEN 1 ELSE 0)
JAbsent  == Val("absent", "", 0)

\* str(v), as an f-string field renders it.
PyStr(v) ==
    CASE v.t = "str"  -> v.s
      [] v.t = "int"  -> ToString(v.n)
      [] v.t = "null" -> "None"
      [] v.t = "bool" -> IF v.n = 1 THEN "True" ELSE "False"

\* v == "literal" in Python: only a str compares equal to a str literal.
PyEqStr(v, lit) == v.t = "str" /\ v.s = lit

\* dict.get(key, default)
DictGetOr(d, key, default) ==
    IF d[key].t \in {"absent", "null"} \/ d[key] = JStr("") \/ d[key] = JInt(0)
    THEN default ELSE d[key]
DictGet(d, key, default) ==
    IF d[key].t = "absent" THEN default ELSE d[key]

\* An Optional[str]: None, or a str.
None     == [set |-> FALSE, val |-> ""]
Some(s)  == [set |-> TRUE, val |-> s]

\* `not x` for an Optional[str]: None and the empty string are falsy.
PyNotIsNone(x) == ~x.set
PyNot(x) == ~x.set \/ x.val = ""

----------------------------------------------------------------------------
(* get_status_message *)

\* ASCII stand-ins of the message texts (U+xxxx: first code point of the text).
PLACEHOLDER       == "<unknown-zh>"                  \* U+672A U+77E5
HEADER            == "[bell] Cursor Agent stop notice" \* line 37, before \n\n
LABEL_STATUS      == "status: "                      \* line 38
LABEL_CONVERSATION == "conversation ID: "            \* line 39
LABEL_MODEL       == "model: "                       \* line 40
LABEL_LOOP_COUNT  == "loop count: "                  \* line 41
LABEL_USER        == "user: "                        \* line 42
CLOSING_COMPLETED == "[check] Agent completed the task"     \* line 46
CLOSING_ERROR     == "[cross] Agent stopped on an error"    \* line 48
CLOSING_CANCELLED == "[warning] Agent was cancelled"        \* line 50
CLOSING_TIMEOUT   == "[stopwatch] Agent stopped on timeout" \* line 52
CLOSING_OTHER     == "[info] Agent stop status: "           \* line 54

\* One line of the message: a fixed text followed by a substituted text.
Line(label, text) == [label |-> label, text |-> text]
BlankLine == Line("", "")

\* Lines 45-54: the closing line, by comparing status with four literals.
ClosingLineAnyCase(st) ==
    IF PyEqStr(st, "completed") \/ PyEqStr(st, "Completed")
    THEN Line(CLOSING_COMPLETED, "")
    ELSE IF PyEqStr(st, "error") THEN Line(CLOSING_ERROR, "")
    ELSE IF PyEqStr(st, "cancelled") THEN Line(CLOSING_CANCELLED, "")
    ELSE IF PyEqStr(st, "timeout") THEN Line(CLOSING_TIMEOUT, "")
    ELSE Line(CLOSING_OTHER, PyStr(st))
ClosingLine(st) ==
    IF PyEqStr(st, "completed") THEN Line(CLOSING_COMPLETED, "")
    ELSE IF PyEqStr(st, "error") THEN Line(CLOSING_ERROR, "")
    ELSE IF PyEqStr(st, "cancelled") THEN Line(CLOSING_CANCELLED, "")
    ELSE IF PyEqStr(st, "timeout") THEN Line(CLOSING_TIMEOUT, "")
    ELSE Line(CLOSING_OTHER, PyStr(st))

\* Lines 32-42: the header, a blank line and the five field lines.
base_message(st, d) ==
    LET conversation_id == DictGet(d, "conversation_id", JStr(PLACEHOLDER))
        model           == DictGet(d, "model", JStr(PLACEHOLDER))
        loop_count      == DictGet(d, "loop_count", JInt(0))
        user_email      == DictGet(d, "user_email", JStr(PLACEHOLDER))
    IN  << Line(HEADER, ""),
           BlankLine,
           Line(LABEL_STATUS, PyStr(st)),
           Line(LABEL_CONVERSATION, PyStr(conversation_id)),
           Line(LABEL_MODEL, PyStr(model)),
           Line(LABEL_LOOP_COUNT, PyStr(loop_count)),
           Line(LABEL_USER, PyStr(user_email)) >>

\* The message, as the sequence of its lines.
get_status_message(st, d) ==
    base_message(st, d) \o << BlankLine, ClosingLine(st) >>

----------------------------------------------------------------------------
(* Inputs *)

\* Values the "status" key is given (JAbsent: the key is missing).
StatusValues ==
    { JAbsent, JStr("completed"), JStr("error"), JStr("cancelled"),
      JStr("timeout"), JStr("unknown"), JStr("Completed"), JStr(""), JNull }
ConversationValues == { JAbsent, JStr("abc123"), JStr("") }
ModelValues        == { JAbsent, JStr("gpt") }
LoopCountValues    == { JAbsent } \cup { JInt(n) : n \in 0..MaxLoopCount }
UserEmailValues    == { JAbsent, JStr("a@b.com") }

\* The event records (JSON objects) enumerated for a run of main.
Events ==
    [ status : StatusValues, conversation_id : ConversationValues,
      model : ModelValues, loop_count : LoopCountValues,
      user_email : UserEmailValues ]

EmptyObject ==
    [ status |-> JAbsent, conversation_id |-> JAbsent, model |-> JAbsent,
      loop_count |-> JAbsent, user_email |-> JAbsent ]

\* Standard input.  kind: "invalid_utf8" (bytes that do not decode), "empty"
\* and "malformed" (text that is not JSON), "json" (a JSON text whose
\* top-level value has type top; obj holds the members of an object).
Input(kind, top, obj) == [kind |-> kind, top |-> top, obj |-> obj]
NonObjectTypes == {"array", "number", "string", "null", "bool"}
StdinInputs ==
    { Input("invalid_utf8", "none", EmptyObject),
      Input("empty", "none", EmptyObject),
      Input("malformed", "none", EmptyObject) }
    \cup { Input("json", t, EmptyObject) : t \in NonObjectTypes }
    \cup { Input("json", "object", e) : e \in Events }

\* An environment: the two variables the script reads, each unset, set to
\* the empty string, or set to a value.
EnvValues == { None, Some(""), Some("v") }
Environments ==
    [ LINE_CHANNEL_ACCESS_TOKEN : EnvValues, LINE_USER_ID : EnvValues ]

\* How requests.post / raise_for_status can end: a response with a status
\* code, a requests exception without a response, or an exception that is
\* not a RequestException (e.g. a header value that cannot be encoded).
StatusCodes == {200, 201, 204, 300, 304, 400, 401, 404, 429, 500, 503}
Outcome(kind, code) == [kind |-> kind, code |-> code]
NoOutcome == Outcome("none", 0)
Outcomes ==
    { Outcome("response", c) : c \in StatusCodes }
    \cup { Outcome("ConnectionError", 0), Outcome("Timeout", 0),
           Outcome("UnicodeEncodeError", 0) }

\* The value json.loads returned: its type, and its members when an object.
Value(top, obj) == [top |-> top, obj |-> obj]
NoValue == Value("none", EmptyObject)

\* An exception in flight.  SystemExit carries the code given to sys.exit.
Exc(cls, code) == [cls |-> cls, code |-> code]
NoExc == Exc("none", 0)
SystemExit(code) == Exc("SystemExit", code)

\* x occurs in the sequence seq.
Contains(seq, x) == \E i \in 1..Len(seq) : seq[i] = x

----------------------------------------------------------------------------
(* Library behaviour the script relies on *)

\* Line 15, load_dotenv(): a variable of the .env file is set in os.environ
\* unless the process environment already holds it (override is off).
LoadDotenv(env, file) ==
    [ k \in DOMAIN env |-> IF env[k].set THEN env[k] ELSE file[k] ]

\* Line 101, bytes.decode('utf-8') raises UnicodeDecodeError.
DecodeRaises(in) == in.kind = "invalid_utf8"

\* Line 105, json.loads raises JSONDecodeError: the text is not JSON.
JsonLoadsRaisesOnlyOnEmpty(in) == in.kind = "empty"
JsonLoadsRaises(in) == in.kind \in {"empty", "malformed"}

\* Line 105, the value json.loads returns for a JSON text.
JsonLoads(in) == Value(in.top, in.obj)

\* Line 111, data.get: only a dict has the attribute; a list, number, str,
\* bool or None raises AttributeError.
HasGetAlways(v) == TRUE
HasGet(v) == v.top = "object"

\* Line 88, Response.raise_for_status() raises HTTPError for the client
\* error (4xx) and server error (5xx) status codes, and only for those.
RaiseForStatus(code) == 400 <= code /\ code < 600

\* Lines 87-88: the exception the try block of send_line_message ends with.
SendException(o) ==
    IF o.kind = "response"
    THEN IF RaiseForStatus(o.code) THEN "HTTPError" ELSE "none"
    ELSE o.kind

\* Line 90, except requests.exceptions.RequestException.
IsRequestException(cls) == cls \in {"HTTPError", "ConnectionError", "Timeout"}

\* Line 92, hasattr(e.response, 'text'): an HTTPError carries the response;
\* e.response is None when no response was received.
HasResponseText(o) == o.kind = "response"

\* Line 139, except Exception: SystemExit derives from BaseException and is
\* not caught.
BareExcept(exc) == TRUE
IsException(exc) == exc.cls # "SystemExit"

----------------------------------------------------------------------------
(* The run of the script *)

\* Move to position p.
Goto(p) == pc' = p /\ trace' = Append(trace, p)

Init ==
    /\ pc = "import"
    /\ trace = << "import" >>
    /\ stdin \in StdinInputs
    /\ osEnviron \in Environments
    /\ dotenv \in Environments
    /\ environ = osEnviron
    /\ data = NoValue
    /\ status = JAbsent
    /\ access_token = None
    /\ user_id = None
    /\ message = << >>
    /\ posts = 0
    /\ outcome = NoOutcome
    /\ success = FALSE
    /\ raised = NoExc
    /\ exitCode = -1
    /\ stderr = << >>

\* Line 15: load_dotenv() at import.
ImportModule ==
    /\ pc = "import"
    /\ environ' = LoadDotenv(environ, dotenv)
    /\ Goto("read")
    /\ UNCHANGED <<stdin, osEnviron, dotenv, data, status, access_token,
                   user_id, message, posts, outcome, success, raised,
                   exitCode, stderr>>

\* Line 101: input_data = sys.stdin.buffer.read().decode('utf-8')
ReadStdin ==
    /\ pc = "read"
    /\ IF DecodeRaises(stdin)
       THEN raised' = Exc("UnicodeDecodeError", 0) /\ Goto("unwind")
       ELSE raised' = raised /\ Goto("parse")
    /\ UNCHANGED <<stdin, osEnviron, dotenv, environ, data, status,
                   access_token, user_id, message, posts, outcome, success,
                   exitCode, stderr>>

\* Lines 104-108: json.loads, and the JSONDecodeError handler.
ParseJson ==
    /\ pc = "parse"
    /\ IF JsonLoadsRaises(stdin)
       THEN /\ stderr' = Append(stderr, "json_error")
            /\ raised' = SystemExit(1)
            /\ data' = data
            /\ Goto("unwind")
       ELSE /\ data' = JsonLoads(stdin)
            /\ stderr' = stderr
            /\ raised' = raised
            /\ Goto("get_status")
    /\ UNCHANGED <<stdin, osEnviron, dotenv, environ, status, access_token,
                   user_id, message, posts, outcome, success, exitCode>>

\* Line 111: status = data.get("status", "unknown")
GetStatus ==
    /\ pc = "get_status"
    /\ IF HasGet(data)
       THEN /\ status' = DictGet(data.obj, "status", JStr("unknown"))
            /\ raised' = raised
            /\ Goto("getenv")
       ELSE /\ raised' = Exc("AttributeError", 0)
            /\ status' = status
            /\ Goto("unwind")
    /\ UNCHANGED <<stdin, osEnviron, dotenv, environ, data, access_token,
                   user_id, message, posts, outcome, success, exitCode,
                   stderr>>

\* Lines 114-115: os.getenv of the two variables.
GetEnv ==
    /\ pc = "getenv"
    /\ access_token' = environ.LINE_CHANNEL_ACCESS_TOKEN
    /\ user_id' = environ.LINE_USER_ID
    /\ Goto("check_token")
    /\ UNCHANGED <<stdin, osEnviron, dotenv, environ, data, status, message,
                   posts, outcome, success, raised, exitCode, stderr>>

\* Lines 118-120: if not access_token
CheckAccessTokenNoExit ==
    /\ pc = "check_token"
    /\ Goto("check_user")
    /\ UNCHANGED <<stdin, osEnviron, dotenv, environ, data, status,
                   access_token, user_id, message, posts, outcome, success,
                   raised, exitCode, stderr>>
CheckAccessToken ==
    /\ pc = "check_token"
    /\ IF PyNot(access_token)
       THEN /\ stderr' = Append(stderr, "token_unset")
            /\ raised' = SystemExit(1)
            /\ Goto("unwind")
       ELSE /\ stderr' = stderr
            /\ raised' = raised
            /\ Goto("check_user")
    /\ UNCHANGED <<stdin, osEnviron, dotenv, environ, data, status,
                   access_token, user_id, message, posts, outcome, success,
                   exitCode>>

\* Lines 122-124: if not user_id
CheckUserIdNoExit ==
    /\ pc = "check_user"
    /\ Goto("format")
    /\ UNCHANGED <<stdin, osEnviron, dotenv, environ, data, status,
                   access_token, user_id, message, posts, outcome, success,
                   raised, exitCode, stderr>>
CheckUserId ==
    /\ pc = "check_user"
    /\ IF PyNot(user_id)
       THEN /\ stderr' = Append(stderr, "user_id_unset")
            /\ raised' = SystemExit(1)
            /\ Goto("unwind")
       ELSE /\ stderr' = stderr
            /\ raised' = raised
            /\ Goto("format")
    /\ UNCHANGED <<stdin, osEnviron, dotenv, environ, data, status,
                   access_token, user_id, message, posts, outcome, success,
                   exitCode>>

\* Line 127: message = get_status_message(status, data)
BuildMessage ==
    /\ pc = "format"
    /\ message' = get_status_message(status, data.obj)
    /\ Goto("send")
    /\ UNCHANGED <<stdin, osEnviron, dotenv, environ, data, status,
                   access_token, user_id, posts, outcome, success, raised,
                   exitCode, stderr>>

\* Line 130 and lines 59-94: success = send_line_message(...).  One call of
\* requests.post, ending in any of Outcomes.
send_line_message ==
    /\ pc = "send"
    /\ \E o \in Outcomes :
         LET cls == SendException(o) IN
         /\ posts' = posts + 1
         /\ outcome' = o
         /\ IF cls = "none"
            THEN /\ success' = TRUE
                 /\ stderr' = stderr
                 /\ raised' = raised
                 /\ Goto("report")
            ELSE IF IsRequestException(cls)
            THEN /\ success' = FALSE
                 /\ stderr' = stderr \o << "send_error" >> \o
                        (IF HasResponseText(o) THEN << "response_text" >>
                                               ELSE << >>)
                 /\ raised' = raised
                 /\ Goto("report")
            ELSE /\ success' = success
                 /\ stderr' = stderr
                 /\ raised' = Exc(cls, 0)
                 /\ Goto("unwind")
    /\ UNCHANGED <<stdin, osEnviron, dotenv, environ, data, status,
                   access_token, user_id, message, exitCode>>

\* Lines 132-137: report the result and call sys.exit.
Report ==
    /\ pc = "report"
    /\ IF success
       THEN stderr' = Append(stderr, "sent") /\ raised' = SystemExit(0)
       ELSE stderr' = Append(stderr, "send_failed") /\ raised' = SystemExit(1)
    /\ Goto("unwind")
    /\ UNCHANGED <<stdin, osEnviron, dotenv, environ, data, status,
                   access_token, user_id, message, posts, outcome, success,
                   exitCode>>

\* Lines 139-141: what leaves the try block.  An Exception is caught,
\* reported and turned into sys.exit(1); a SystemExit ends the process with
\* its own code.
LeaveTry ==
    /\ pc = "unwind"
    /\ IF IsException(raised)
       THEN stderr' = Append(stderr, "unexpected") /\ exitCode' = 1
       ELSE stderr' = stderr /\ exitCode' = raised.code
    /\ Goto("exit")
    /\ UNCHANGED <<stdin, osEnviron, dotenv, environ, data, status,
                   access_token, user_id, message, posts, outcome, success,
                   raised>>

Next ==
    \/ ImportModule
    \/ ReadStdin
    \/ ParseJson
    \/ GetStatus
    \/ GetEnv
    \/ CheckAccessToken
    \/ CheckUserId
    \/ BuildMessage
    \/ send_line_message
    \/ Report
    \/ LeaveTry

Spec == Init /\ [][Next]_vars

\* The script runs one statement after the other: a run that can take a
\* step takes it.
FairSpec == Spec /\ WF_vars(Next)

----------------------------------------------------------------------------
(* get_status_message as a function of its two arguments *)

FmtStatusValues ==
    (StatusValues \ {JAbsent})
    \cup { JStr("TIMEOUT"), JStr("completed "), JInt(1), JBool(TRUE) }
FmtEvents ==
    [ status : {JAbsent, JStr("completed")},
      conversation_id : ConversationValues \cup {JNull},
      model : ModelValues \cup {JNull},
      loop_count : LoopCountValues \cup {JStr("3"), JNull},
      user_email : UserEmailValues \cup {JStr("")} ]

FmtInit ==
    /\ pc = "fmt_call"
    /\ trace = << "fmt_call" >>
    /\ status \in FmtStatusValues
    /\ data \in { Value("object", e) : e \in FmtEvents }
    /\ stdin = Input("json", "object", data.obj)
    /\ osEnviron = [LINE_CHANNEL_ACCESS_TOKEN |-> None, LINE_USER_ID |-> None]
    /\ dotenv = osEnviron
    /\ environ = osEnviron
    /\ access_token = None
    /\ user_id = None
    /\ message = << >>
    /\ posts = 0
    /\ outcome = NoOutcome
    /\ success = FALSE
    /\ raised = NoExc
    /\ exitCode = -1
    /\ stderr = << >>

\* A call get_status_message(status, data).
FmtCall ==
    /\ pc = "fmt_call"
    /\ message' = get_status_message(status, data.obj)
    /\ Goto("fmt_done")
    /\ UNCHANGED <<stdin, osEnviron, dotenv, environ, data, status,
                   access_token, user_id, posts, outcome, success, raised,
                   exitCode, stderr>>

FmtNext == FmtCall

FmtSpec == FmtInit /\ [][FmtNext]_vars

----------------------------------------------------------------------------
(* Properties *)

\* The order of the positions of a run, and each position's rank in it.
PcOrder ==
    << "import", "read", "parse", "get_status", "getenv", "check_token",
       "check_user", "format", "send", "report", "unwind", "exit" >>
Rank(p) == CHOOSE i \in 1..Len(PcOrder) : PcOrder[i] = p

Finished      == pc = "exit"
IsObjectInput == stdin.kind = "json" /\ stdin.top = "object"
EnvLoaded     == pc # "import"
SendInvoked   == Contains(trace, "send")
Is2xx(o)      == o.kind = "response" /\ o.code \in 200..299
\* A credential that is unset or set to the empty string.
Unusable(x)   == x = None \/ x = Some("")
TokenVar      == environ.LINE_CHANNEL_ACCESS_TOKEN
UserIdVar     == environ.LINE_USER_ID

\* C1: a finished run has exit code 0 or 1, and it has exit code 0 exactly
\* when one POST was made and it was answered with a 2xx status.
C1_ExitZeroIffOne2xx ==
    Finished =>
        /\ exitCode \in {0, 1}
        /\ (exitCode = 0) <=> (posts = 1 /\ Is2xx(outcome))

\* C2: when the text on standard input is not JSON, the run does not reach
\* the call of send_line_message, makes no POST, and ends with exit code 1
\* after reporting the JSON error, whatever the environment holds.
C2_MalformedJsonExitsOneNoCall ==
    stdin.kind \in {"empty", "malformed"} =>
        /\ posts = 0
        /\ ~SendInvoked
        /\ Finished => (exitCode = 1 /\ stderr = << "json_error" >>)

C2_Witness ==
    /\ Finished
    /\ stdin.kind = "malformed"
    /\ TokenVar = Some("v")
    /\ UserIdVar = Some("v")
    /\ exitCode = 1

\* C3: with a JSON object on standard input, when LINE_CHANNEL_ACCESS_TOKEN
\* or LINE_USER_ID is not set in the environment the script reads, the run
\* makes no POST and ends with exit code 1.
C3_MissingCredentialExitsOneNoCall ==
    (EnvLoaded /\ IsObjectInput /\ (~TokenVar.set \/ ~UserIdVar.set)) =>
        /\ posts = 0
        /\ ~SendInvoked
        /\ Finished => exitCode = 1

C3_Witness ==
    /\ Finished
    /\ IsObjectInput
    /\ TokenVar = Some("v")
    /\ ~UserIdVar.set
    /\ exitCode = 1
    /\ posts = 0

\* C4: at most one POST is ever made, and a run whose POST was answered with
\* a status that is not 2xx, or ended in an exception, ends with exit code 1
\* after exactly one POST.
C4_FailedPostExitsOneAfterOneAttempt ==
    /\ posts <= 1
    /\ (Finished /\ posts >= 1 /\ ~Is2xx(outcome)) =>
            (exitCode = 1 /\ posts = 1)

\* C5: the closing line of get_status_message(status, data) is the fixed
\* line of 'completed', 'error', 'cancelled' or 'timeout' exactly when
\* status is that string, and for every other status it is the generic line
\* followed by the status as given.
C5_ClosingLineByExactMatch ==
    pc = "fmt_done" =>
        LET closing == message[Len(message)]
            known   == {"completed", "error", "cancelled", "timeout"}
        IN  /\ Len(message) = 9
            /\ status = JStr("completed") => closing = Line(CLOSING_COMPLETED, "")
            /\ status = JStr("error")     => closing = Line(CLOSING_ERROR, "")
            /\ status = JStr("cancelled") => closing = Line(CLOSING_CANCELLED, "")
            /\ status = JStr("timeout")   => closing = Line(CLOSING_TIMEOUT, "")
            /\ (status.t = "str" /\ status.s \notin known) =>
                    closing = Line(CLOSING_OTHER, status.s)
            /\ status.t # "str" => closing.label = CLOSING_OTHER
            /\ Cardinality({CLOSING_COMPLETED, CLOSING_ERROR, CLOSING_CANCELLED,
                            CLOSING_TIMEOUT, CLOSING_OTHER}) = 5

C5_Witness ==
    /\ pc = "fmt_done"
    /\ status = JStr("Completed")
    /\ message[Len(message)] = Line(CLOSING_OTHER, "Completed")

\* C6: in the message main builds, each of the five fields shows the
\* placeholder of its key when the event record lacks the key ('unknown'
\* for status, 0 for loop_count, the placeholder text for the others), never
\* the empty text, and shows the record's own value when the key is there;
\* building the message never ends the run.
C6_MissingFieldsRenderPlaceholder ==
    LET d == stdin.obj
        Shown(key, placeholder) ==
            IF d[key] = JAbsent THEN placeholder ELSE PyStr(d[key])
    IN  /\ SendInvoked =>
            /\ Len(message) = 9
            /\ message[3] = Line(LABEL_STATUS, Shown("status", "unknown"))
            /\ message[4] = Line(LABEL_CONVERSATION,
                                 Shown("conversation_id", PLACEHOLDER))
            /\ message[5] = Line(LABEL_MODEL, Shown("model", PLACEHOLDER))
            /\ message[6] = Line(LABEL_LOOP_COUNT, Shown("loop_count", "0"))
            /\ message[7] = Line(LABEL_USER, Shown("user_email", PLACEHOLDER))
            /\ d.status = JAbsent => message[3].text # ""
            /\ d.conversation_id = JAbsent => message[4].text # ""
            /\ d.model = JAbsent => message[5].text # ""
            /\ d.loop_count = JAbsent => message[6].text # ""
            /\ d.user_email = JAbsent => message[7].text # ""
        /\ PLACEHOLDER # ""
        /\ (Contains(trace, "format") /\ pc # "format") => SendInvoked

C6_Witness ==
    /\ Finished
    /\ SendInvoked
    /\ stdin.obj = EmptyObject
    /\ message[4] = Line(LABEL_CONVERSATION, PLACEHOLDER)
    /\ message[6] = Line(LABEL_LOOP_COUNT, "0")

\* C7 as stated: a JSON text whose top-level value is not an object ends
\* the run in the JSON parse error outcome, with exit code 1 and no POST.
C7_NonObjectIsJsonParseError ==
    (Finished /\ stdin.kind = "json" /\ stdin.top \in NonObjectTypes) =>
        /\ exitCode = 1
        /\ posts = 0
        /\ Contains(stderr, "json_error")

\* C7 as amended: a JSON text whose top-level value is not an object is
\* parsed without error; the run then fails on reading the status
\* (AttributeError), makes no POST, and ends with exit code 1 in the
\* unexpected-error outcome of the top-level handler.
C7_NonObjectIsUnexpectedError ==
    (stdin.kind = "json" /\ stdin.top \in NonObjectTypes) =>
        /\ posts = 0
        /\ ~SendInvoked
        /\ ~Contains(stderr, "json_error")
        /\ Finished =>
              /\ exitCode = 1
              /\ stderr = << "unexpected" >>
              /\ raised = Exc("AttributeError", 0)

C7_Witness ==
    /\ Finished
    /\ stdin.kind = "json"
    /\ stdin.top = "array"
    /\ TokenVar = Some("v")
    /\ UserIdVar = Some("v")
    /\ stderr = << "unexpected" >>

C9_UncaughtEndsInExitOne ==
    /\ [](Finished => exitCode \in {0, 1})
    /\ [](Finished /\ stdin.kind = "invalid_utf8" =>
            (exitCode = 1 /\ stderr = << "unexpected" >> /\ posts = 0))
    /\ [](Finished /\ outcome.kind = "UnicodeEncodeError" =>
            (exitCode = 1 /\ stderr = << "unexpected" >> /\ posts = 1))
    /\ [](Finished /\ raised.cls = "SystemExit" =>
            (exitCode = raised.code /\ ~Contains(stderr, "unexpected")))
    /\ [](Finished /\ Contains(stderr, "sent") => exitCode = 0)
    /\ [](Finished /\ Contains(stderr, "json_error") => exitCode = 1)
    /\ <>Finished

C9_Witness ==
    /\ Finished
    /\ outcome.kind = "UnicodeEncodeError"
    /\ exitCode = 1
    /\ stderr = << "unexpected" >>

\* C10: a credential set to the empty string is treated like one that is
\* not set: the run makes no POST and ends with exit code 1.  The access
\* token is checked first: when it is unusable the run reports it alone and
\* never reaches the check of the user id.
C10_EmptyCredentialLikeAbsent ==
    (EnvLoaded /\ IsObjectInput) =>
        /\ (Unusable(TokenVar) \/ Unusable(UserIdVar)) =>
              /\ posts = 0
              /\ ~SendInvoked
              /\ Finished => exitCode = 1
        /\ Unusable(TokenVar) =>
              /\ ~Contains(trace, "check_user")
              /\ ~Contains(stderr, "user_id_unset")
              /\ Finished => stderr = << "token_unset" >>
        /\ (~Unusable(TokenVar) /\ Unusable(UserIdVar)) =>
              (Finished => stderr = << "user_id_unset" >>)

C10_Witness ==
    /\ Finished
    /\ IsObjectInput
    /\ TokenVar = Some("")
    /\ UserIdVar = Some("")
    /\ stderr = << "token_unset" >>

====
